---- MODULE Spec2Model ----
(***************************************************************************)
(* A model of the WebUSB class of src/tsc/webusb/index.ts: the device      *)
(* cache (knownDevices), the ad-hoc authorisations (authorisedDevices),    *)
(* the asynchronous operations getDevices / requestDevice cut at their     *)
(* awaits, the attach / detach callbacks and the listener-count driven     *)
(* subscription to the backend's raw events.                               *)
(*                                                                         *)
(* An optional JavaScript value is a set: {} is undefined, {v} is v.       *)
(***************************************************************************)
EXTENDS Integers, Sequences, FiniteSets, TLC

\* ------------------------------------------------------------------ bounds

\* API calls (getDevices / requestDevice) made during one run.
MaxCalls == 2

\* Entries a channel's listener list may hold (guards addListener).
MaxListeners == 2

\* Calls made during one run while the event bridge is observed.
MaxBridgedCalls == 1

\* ------------------------------------------------------- optional values

Undefined == {}

Some(v) == {v}

IsDef(o) == o # {}

Val(o) == CHOOSE v \in o : TRUE

\* JavaScript truthiness of an optional number: undefined and 0 are falsy.
TruthyNum(o) == \E v \in o : v # 0

\* JavaScript truthiness of an optional string: undefined and "" are falsy.
TruthyStr(o) == \E v \in o : v # ""

Range(s) == {s[i] : i \in 1..Len(s)}

RemoveAt(s, i) == SubSeq(s, 1, i - 1) \o SubSeq(s, i + 1, Len(s))

\* -------------------------------------------------------------- filters

\* A USBDeviceFilter: every field optional.
NoFilter ==
    [vendorId |-> Undefined, productId |-> Undefined, classCode |-> Undefined,
     subclassCode |-> Undefined, protocolCode |-> Undefined,
     serialNumber |-> Undefined]

\* ---------------------------------------------------------- raw devices

\* The raw device handles (usb.Device objects) the backend can present. A
\* handle is attached at most once: a re-plugged device is a new handle.
RawDevices == {"r1", "r2", "r3", "r4"}

\* What the backend and the adapter report of each handle. r1 is a composite
\* device (class 0, one HID interface); r2 declares its class at the device
\* level and has no serial number; r3 is a system device that
\* WebUSBDevice.createInstance cannot open; r4 is r2 plugged in again: a new
\* handle with the descriptors of r2.
Desc ==
    [r1 |-> [vendorId |-> 1, productId |-> 1, deviceClass |-> 0,
             deviceSubclass |-> 0, deviceProtocol |-> 0,
             serialNumber |-> Some("A"), configured |-> TRUE,
             interfaces |-> << [interfaceClass |-> 3, interfaceSubclass |-> 0,
                                interfaceProtocol |-> 1] >>,
             adaptable |-> TRUE],
     r2 |-> [vendorId |-> 2, productId |-> 2, deviceClass |-> 3,
             deviceSubclass |-> 0, deviceProtocol |-> 1,
             serialNumber |-> Undefined, configured |-> TRUE,
             interfaces |-> << >>,
             adaptable |-> TRUE],
     r3 |-> [vendorId |-> 1, productId |-> 3, deviceClass |-> 9,
             deviceSubclass |-> 0, deviceProtocol |-> 0,
             serialNumber |-> Undefined, configured |-> FALSE,
             interfaces |-> << >>,
             adaptable |-> FALSE],
     r4 |-> [vendorId |-> 2, productId |-> 2, deviceClass |-> 3,
             deviceSubclass |-> 0, deviceProtocol |-> 1,
             serialNumber |-> Undefined, configured |-> TRUE,
             interfaces |-> << >>,
             adaptable |-> TRUE]]

\* WebUSBDevice.createInstance(device, ...) resolves for a device that can be
\* opened and described and rejects otherwise.
CreateSucceeds(h) == Desc[h].adaptable

\* An adapted device (WebUSBDevice): the id-th adapter created for handle raw.
\* Its descriptor fields are those of Desc[raw].
WebDevice(h, id) == [raw |-> h, id |-> id]

\* ------------------------------------------------------ pure operations

\* A per-filter test for quickFilter that also compares classCode with the
\* class the device declares, without looking at the interfaces.
QuickAccepts_Class(d, filter) ==
    /\ ~(TruthyNum(filter.vendorId) /\ filter.vendorId # Some(d.vendorId))
    /\ ~(TruthyNum(filter.productId) /\ filter.productId # Some(d.productId))
    /\ ~(TruthyNum(filter.classCode) /\ filter.classCode # Some(d.deviceClass))

\* quickFilter's per-filter test (lines 292-302) of a device whose
\* descriptors are d
QuickAccepts(d, filter) ==
    /\ ~(TruthyNum(filter.vendorId) /\ filter.vendorId # Some(d.vendorId))
    /\ ~(TruthyNum(filter.productId) /\ filter.productId # Some(d.productId))

\* Whether quickFilter retains a device whose descriptors are d (lines
\* 287-302): preFilters is an optional list.
QuickKeeps(d, preFilters) ==
    IF ~IsDef(preFilters) \/ Len(Val(preFilters)) = 0
    THEN TRUE
    ELSE \E i \in 1..Len(Val(preFilters)) : QuickAccepts(d, Val(preFilters)[i])

\* quickFilter(devices, preFilters): preFilters is an optional list.
QuickFilter(devices, preFilters) ==
    SelectSeq(devices, LAMBDA h : QuickKeeps(Desc[h], preFilters))

\* The interface test inside filterDevice (lines 326-337)
IfaceMatch(iface, filter) ==
    /\ ~(TruthyNum(filter.classCode)
         /\ filter.classCode # Some(iface.interfaceClass))
    /\ ~(TruthyNum(filter.subclassCode)
         /\ filter.subclassCode # Some(iface.interfaceSubclass))
    /\ ~(TruthyNum(filter.protocolCode)
         /\ filter.protocolCode # Some(iface.interfaceProtocol))

\* filterDevice's per-filter test (lines 311-357), in the code's order, of a
\* device whose descriptors are d.
FilterAccepts(d, filter) ==
    IF TruthyNum(filter.vendorId) /\ filter.vendorId # Some(d.vendorId) THEN FALSE
    ELSE IF TruthyNum(filter.productId) /\ filter.productId # Some(d.productId)
    THEN FALSE
    ELSE IF TruthyNum(filter.classCode) /\ ~d.configured THEN FALSE
    ELSE IF /\ TruthyNum(filter.classCode)
            /\ \E i \in 1..Len(d.interfaces) : IfaceMatch(d.interfaces[i], filter)
    THEN TRUE
    ELSE /\ ~(TruthyNum(filter.classCode)
              /\ filter.classCode # Some(d.deviceClass))
         /\ ~(TruthyNum(filter.subclassCode)
              /\ filter.subclassCode # Some(d.deviceSubclass))
         /\ ~(TruthyNum(filter.protocolCode)
              /\ filter.protocolCode # Some(d.deviceProtocol))
         /\ ~(TruthyStr(filter.serialNumber)
              /\ filter.serialNumber # d.serialNumber)

\* filterDevice's per-filter test of the adapted device of handle h
FilterMatch(h, filter) == FilterAccepts(Desc[h], filter)

\* filterDevice(device, filters) of a device whose descriptors are d: filters
\* is an optional list.
FilterDescriptors(d, filters) ==
    IF ~IsDef(filters) \/ Len(Val(filters)) = 0
    THEN TRUE
    ELSE \E i \in 1..Len(Val(filters)) : FilterAccepts(d, Val(filters)[i])

\* filterDevice(device, filters) of the adapted device of handle h
FilterDevice(h, filters) == FilterDescriptors(Desc[h], filters)

\* The snapshot requestDevice records of the chosen device (lines 216-223)
Snapshot(h) ==
    [vendorId |-> Desc[h].vendorId, productId |-> Desc[h].productId,
     classCode |-> Desc[h].deviceClass, subclassCode |-> Desc[h].deviceSubclass,
     protocolCode |-> Desc[h].deviceProtocol,
     serialNumber |-> Desc[h].serialNumber]

\* One disjunct of isAuthorisedDevice's last test (lines 373-380)
SnapshotMatch(authorised, h) ==
    /\ authorised.vendorId = Desc[h].vendorId
    /\ authorised.productId = Desc[h].productId
    /\ authorised.classCode = Desc[h].deviceClass
    /\ authorised.subclassCode = Desc[h].deviceSubclass
    /\ authorised.protocolCode = Desc[h].deviceProtocol
    /\ authorised.serialNumber = Desc[h].serialNumber

\* ---------------------------------------------------------------- inputs

\* The constructor's options (USBOptions): allowAllDevices, the optional
\* allowedDevices list, and whether a devicesFound callback is configured.
OptionChoices ==
    { [allowAllDevices |-> a, allowedDevices |-> l, devicesFound |-> f] :
        a \in BOOLEAN,
        l \in { Undefined, Some(<< >>),
                Some(<< [NoFilter EXCEPT !.vendorId = Some(1)] >>) },
        f \in {FALSE} }
    \cup
    { [allowAllDevices |-> FALSE, allowedDevices |-> Undefined,
       devicesFound |-> TRUE] }

\* The filter lists callers pass to requestDevice.
FilterLists ==
    { << >>,
      << [NoFilter EXCEPT !.vendorId = Some(2)] >>,
      << [NoFilter EXCEPT !.protocolCode = Some(0)] >>,
      << [NoFilter EXCEPT !.protocolCode = Some(1)] >>,
      << [NoFilter EXCEPT !.subclassCode = Some(1)] >>,
      << [NoFilter EXCEPT !.classCode = Some(3), !.subclassCode = Some(0),
                          !.protocolCode = Some(1)] >>,
      << [NoFilter EXCEPT !.vendorId = Some(2)],
         [NoFilter EXCEPT !.classCode = Some(3), !.protocolCode = Some(1)] >> }

\* The argument of requestDevice: absent, not a plain object, without
\* filters, with filters that is no array, or {filters: [...]}.
RequestInputs ==
    { [kind |-> k, filters |-> << >>] :
        k \in {"missing", "notObject", "noFilters", "notSequence"} }
    \cup { [kind |-> "ok", filters |-> l] : l \in FilterLists }

\* The handlers callers register.
Handlers == {"h1", "h2"}

Channels == {"connect", "disconnect"}

\* ----------------------------------------------------------------- state

VARIABLES
    options,            \* this.options, fixed at construction
    deviceList,         \* usb.getDeviceList(): the attached handles, in order
    seen,               \* handles the backend has attached or will not attach
    knownDevices,       \* this.knownDevices: handle -> adapter id, 0 = no entry
    created,            \* adapters created so far per handle
    authorisedDevices,  \* this.authorisedDevices, in insertion order
    granted,            \* handles requestDevice has returned
    listeners,          \* this.emitter's listeners per channel, in order
    slot,               \* this._onconnect / this._ondisconnect
    subs,               \* registrations of the callbacks on usb's raw events
    cb,                 \* the deviceConnectCallback run of each handle
    calls,              \* the getDevices / requestDevice calls in flight
    made,               \* calls made so far
    events,             \* the notifications the last step emitted
    ret                 \* the call the last step completed, with its outcome

vars == << options, deviceList, seen, knownDevices, created, authorisedDevices,
           granted, listeners, slot, subs, cb, calls, made, events, ret >>

CallIds == 1..MaxCalls

\* A call record that is not in use.
NoCall ==
    [op |-> "none", pc |-> "idle", filters |-> Undefined, enum |-> << >>,
     todo |-> << >>, refreshed |-> << >>, cur |-> 0, granted |-> {}]

\* No call completed.
NoRet ==
    [op |-> "none", status |-> "", value |-> << >>, call |-> NoCall,
     authBefore |-> << >>, pick |-> 0]

NoCallback == [pc |-> "idle", cur |-> 0]

Init ==
    /\ options \in OptionChoices
    /\ deviceList = << >>
    /\ seen = {"r4"}
    /\ knownDevices = [h \in RawDevices |-> 0]
    /\ created = [h \in RawDevices |-> 0]
    /\ authorisedDevices = << >>
    /\ granted = {}
    /\ listeners = [ch \in Channels |-> << >>]
    /\ slot = [ch \in Channels |-> Undefined]
    /\ subs = [ch \in Channels |-> 0]
    /\ cb = [h \in RawDevices |-> NoCallback]
    /\ calls = [c \in CallIds |-> NoCall]
    /\ made = 0
    /\ events = {}
    /\ ret = NoRet

\* A step that emits no notification and completes no call.
Quiet == events' = {} /\ ret' = NoRet

\* -------------------------------------------------------- authorisation

\* isAuthorisedDevice(device) (lines 361-381)
IsAuthorisedDevice(h) ==
    \/ options.allowAllDevices
    \/ IsDef(options.allowedDevices) /\ FilterDevice(h, options.allowedDevices)
    \/ \E i \in 1..Len(authorisedDevices) : SnapshotMatch(authorisedDevices[i], h)

\* ------------------------------------------------------------ listeners

\* A hook that subscribes at every registration: the variant C7 must reject.
NewListenerSubscribes_Every(count) == TRUE

\* The 'newListener' hook's test (lines 91-95): count is the channel's
\* listenerCount before the new listener is added.
NewListenerSubscribes(count) == count = 0

\* The 'removeListener' hook's test (lines 105-109): count is the channel's
\* listenerCount after the listener was removed.
RemoveListenerUnsubscribes(count) == count = 0

\* usb.removeListener(raw event, callback): one registration less, if any.
UsbRemoveListener(n) == IF n > 0 THEN n - 1 ELSE 0

\* emitter.addListener(type, listener) on a channel p = [ls, n]: 'newListener'
\* is emitted before the listener is appended. via is "add" or "slot": which
\* of addEventListener and the handler slot made the registration.
EmitterAdd(p, fn, via) ==
    [ls |-> Append(p.ls, [fn |-> fn, via |-> via]),
     n  |-> IF NewListenerSubscribes(Len(p.ls)) THEN p.n + 1 ELSE p.n]

\* emitter.removeListener(type, listener): the most recently added
\* registration of the function is removed and then 'removeListener' is
\* emitted; nothing happens when the function is not registered.
EmitterRemove(p, fn) ==
    LET hits == {i \in 1..Len(p.ls) : p.ls[i].fn = fn} IN
    IF hits = {} THEN p
    ELSE LET i == CHOOSE j \in hits : \A k \in hits : k <= j
             ls == RemoveAt(p.ls, i)
         IN [ls |-> ls,
             n  |-> IF RemoveListenerUnsubscribes(Len(ls))
                    THEN UsbRemoveListener(p.n) ELSE p.n]

Channel(ch) == [ls |-> listeners[ch], n |-> subs[ch]]

\* addEventListener with a 'newListener' hook that does not look at the event
\* name: the backend subscription count of the channel is written to both.
AddEventListener_BothEvents(ch, fn) ==
    /\ Len(listeners[ch]) < MaxListeners
    /\ LET q == EmitterAdd(Channel(ch), fn, "add") IN
        /\ listeners' = [listeners EXCEPT ![ch] = q.ls]
        /\ subs' = [o \in Channels |-> q.n]
    /\ Quiet
    /\ UNCHANGED << options, slot, deviceList, seen, knownDevices, created,
                    authorisedDevices, granted, cb, calls, made >>

\* addEventListener(type, listener) (lines 147-149)
AddEventListener(ch, fn) ==
    /\ Len(listeners[ch]) < MaxListeners
    /\ LET q == EmitterAdd(Channel(ch), fn, "add") IN
        /\ listeners' = [listeners EXCEPT ![ch] = q.ls]
        /\ subs' = [subs EXCEPT ![ch] = q.n]
    /\ Quiet
    /\ UNCHANGED << options, slot, deviceList, seen, knownDevices, created,
                    authorisedDevices, granted, cb, calls, made >>

\* removeEventListener(type, callback) (lines 153-155)
RemoveEventListener(ch, fn) ==
    /\ LET q == EmitterRemove(Channel(ch), fn) IN
        /\ listeners' = [listeners EXCEPT ![ch] = q.ls]
        /\ subs' = [subs EXCEPT ![ch] = q.n]
    /\ Quiet
    /\ UNCHANGED << options, slot, deviceList, seen, knownDevices, created,
                    authorisedDevices, granted, cb, calls, made >>

\* set onconnect / set ondisconnect (lines 120-130, 133-143): fn is optional.
SetHandler(ch, fn) ==
    LET p == IF IsDef(slot[ch])
             THEN EmitterRemove(Channel(ch), Val(slot[ch]))
             ELSE Channel(ch)
        q == IF IsDef(fn) THEN EmitterAdd(p, Val(fn), "slot") ELSE p
    IN  /\ Len(q.ls) <= MaxListeners
        /\ listeners' = [listeners EXCEPT ![ch] = q.ls]
        /\ subs' = [subs EXCEPT ![ch] = q.n]
        /\ slot' = [slot EXCEPT ![ch] = fn]
        /\ Quiet
        /\ UNCHANGED << options, deviceList, seen, knownDevices, created,
                        authorisedDevices, granted, cb, calls, made >>

\* ------------------------------------------------------- getWebDevice

\* getWebDevice's test of the cache (line 269)
NeedsCreate(h) == knownDevices[h] = 0

\* A getWebDevice that stores an adapter whether or not createInstance
\* succeeded: the variant C10 must reject.
GetAfterCreate_Stored(h) == created[h] + 1

\* The adapter id getWebDevice returns once createInstance has settled
\* (lines 274-282): a new adapter is stored on success, a failure is
\* swallowed, and this.knownDevices.get(device) is returned either way.
GetAfterCreate(h) ==
    IF CreateSucceeds(h) THEN created[h] + 1 ELSE knownDevices[h]

\* The effect of a settled createInstance on the cache and the adapter count.
SettleCreate(h) ==
    /\ knownDevices' = [knownDevices EXCEPT ![h] = GetAfterCreate(h)]
    /\ created' = [created EXCEPT ![h] = IF CreateSucceeds(h) THEN @ + 1 ELSE @]

\* --------------------------------------------------- attach and detach

\* A connect test without the authorisation check: the variant C8 must reject.
ConnectEmits_Adapted(h, cur) == cur # 0

\* A disconnect test without the authorisation check: the variant C9 must
\* reject.
DisconnectEmits_Known(h) == knownDevices[h] # 0

\* deviceConnectCallback's test (line 64): cur is what getWebDevice returned.
ConnectEmits(h, cur) == cur # 0 /\ IsAuthorisedDevice(h)

\* deviceDisconnectCallback's test (lines 76-79)
DisconnectEmits(h) == knownDevices[h] # 0 /\ IsAuthorisedDevice(h)

\* The backend attaches handle h; a subscribed deviceConnectCallback starts
\* and runs to its await (lines 60-61).
Attach(h) ==
    /\ h \notin seen
    /\ seen' = seen \cup {h}
    /\ deviceList' = Append(deviceList, h)
    /\ cb' = [cb EXCEPT ![h] =
                IF subs["connect"] = 0 THEN @
                ELSE IF NeedsCreate(h) THEN [pc |-> "creating", cur |-> 0]
                ELSE [pc |-> "ready", cur |-> knownDevices[h]]]
    /\ Quiet
    /\ UNCHANGED << options, knownDevices, created, authorisedDevices, granted,
                    calls, made, listeners, slot, subs >>

\* createInstance settles inside the callback's getWebDevice (lines 275-282).
ConnectCreated(h) ==
    /\ cb[h].pc = "creating"
    /\ SettleCreate(h)
    /\ cb' = [cb EXCEPT ![h] = [pc |-> "ready", cur |-> GetAfterCreate(h)]]
    /\ Quiet
    /\ UNCHANGED << options, deviceList, seen, authorisedDevices, granted, calls,
                    made, listeners, slot, subs >>

\* deviceConnectCallback resumes after its await (lines 64-71).
ConnectResume(h) ==
    /\ cb[h].pc = "ready"
    /\ events' = IF ConnectEmits(h, cb[h].cur)
                 THEN {[type |-> "connect", raw |-> h, id |-> cb[h].cur]}
                 ELSE {}
    /\ cb' = [cb EXCEPT ![h] = NoCallback]
    /\ ret' = NoRet
    /\ UNCHANGED << options, deviceList, seen, knownDevices, created,
                    authorisedDevices, granted, calls, made, listeners, slot,
                    subs >>

\* The backend detaches handle h; a subscribed deviceDisconnectCallback runs
\* (lines 74-88).
Detach(h) ==
    /\ h \in Range(deviceList)
    /\ deviceList' = SelectSeq(deviceList, LAMBDA x : x # h)
    /\ events' = IF subs["disconnect"] > 0 /\ DisconnectEmits(h)
                 THEN {[type |-> "disconnect", raw |-> h, id |-> knownDevices[h]]}
                 ELSE {}
    /\ ret' = NoRet
    /\ UNCHANGED << options, seen, knownDevices, created, authorisedDevices,
                    granted, cb, calls, made, listeners, slot, subs >>

\* ------------------------------------------------------------ loadDevices

\* Pre-filters that ignore allowAllDevices: the variant C3 must reject.
PreFilters_Allowed == options.allowedDevices

\* getDevices' choice of pre-filters (line 236)
PreFilters ==
    IF options.allowAllDevices THEN Undefined ELSE options.allowedDevices

\* this.knownDevices after loadDevices replaced it by the refreshed map
\* (line 261)
KnownFrom(refreshed) ==
    [h \in RawDevices |->
        IF \E i \in 1..Len(refreshed) : refreshed[i].raw = h
        THEN refreshed[CHOOSE i \in 1..Len(refreshed) : refreshed[i].raw = h].id
        ELSE 0]

\* loadDevices' loop from the top of an iteration (lines 252-263) for the
\* call record r, up to its next await: with no device left the cache is
\* replaced and the refreshed devices are returned; otherwise getWebDevice
\* either finds the device cached or starts createInstance.
Continue(c, r) ==
    IF r.todo = << >>
    THEN /\ knownDevices' = KnownFrom(r.refreshed)
         /\ calls' = [calls EXCEPT ![c] = [r EXCEPT !.pc = "loaded", !.cur = 0]]
    ELSE /\ UNCHANGED knownDevices
         /\ calls' = [calls EXCEPT ![c] =
                IF NeedsCreate(Head(r.todo))
                THEN [r EXCEPT !.pc = "creating", !.cur = 0]
                ELSE [r EXCEPT !.pc = "ready",
                               !.cur = knownDevices[Head(r.todo)]]]

\* The caller has no call in flight.
NoCallInFlight == \A c \in CallIds : calls[c].op = "none"

\* A call can be made: the next one takes the lowest call record not in use.
Fresh(c) ==
    /\ made < MaxCalls
    /\ calls[c].op = "none"
    /\ \A x \in CallIds : x < c => calls[x].op # "none"

\* getDevices() up to its first await (lines 235-239, 244-253)
GetDevices(c) ==
    /\ Fresh(c)
    /\ made' = made + 1
    /\ Continue(c, [NoCall EXCEPT
            !.op = "getDevices", !.filters = PreFilters, !.enum = deviceList,
            !.todo = QuickFilter(deviceList, PreFilters),
            !.granted = granted])
    /\ Quiet
    /\ UNCHANGED << options, deviceList, seen, created, authorisedDevices,
                    granted, cb, listeners, slot, subs >>

\* requestDevice's validation of its argument (lines 169-199): the error
\* thrown, "" for none.
ValidateRequest(input) ==
    IF input.kind # "ok" THEN "TypeError"
    ELSE IF \E i \in 1..Len(input.filters) :
              LET filter == input.filters[i] IN
              \/ TruthyNum(filter.protocolCode) /\ ~TruthyNum(filter.subclassCode)
              \/ TruthyNum(filter.subclassCode) /\ ~TruthyNum(filter.classCode)
    THEN "TypeError"
    ELSE ""

\* requestDevice(options) up to its first await (lines 167-201, 244-253)
RequestDevice(c, input) ==
    /\ Fresh(c)
    /\ made' = made + 1
    /\ IF ValidateRequest(input) # ""
       THEN /\ ret' = [NoRet EXCEPT
                        !.op = "requestDevice",
                        !.status = ValidateRequest(input),
                        !.call = [NoCall EXCEPT
                            !.op = "requestDevice",
                            !.filters = IF input.kind = "ok"
                                        THEN Some(input.filters) ELSE Undefined,
                            !.enum = deviceList, !.granted = granted],
                        !.authBefore = authorisedDevices]
            /\ events' = {}
            /\ UNCHANGED << knownDevices, calls >>
       ELSE /\ Continue(c, [NoCall EXCEPT
                    !.op = "requestDevice", !.filters = Some(input.filters),
                    !.enum = deviceList,
                    !.todo = QuickFilter(deviceList, Some(input.filters)),
                    !.granted = granted])
            /\ Quiet
    /\ UNCHANGED << options, deviceList, seen, created, authorisedDevices,
                    granted, cb, listeners, slot, subs >>

\* createInstance settles inside a call's getWebDevice (lines 275-282).
CallCreated(c) ==
    /\ calls[c].pc = "creating"
    /\ LET h == Head(calls[c].todo) IN
        /\ SettleCreate(h)
        /\ calls' = [calls EXCEPT ![c].pc = "ready", ![c].cur = GetAfterCreate(h)]
    /\ Quiet
    /\ UNCHANGED << options, deviceList, seen, authorisedDevices, granted, cb,
                    made, listeners, slot, subs >>

\* loadDevices resumes after `await this.getWebDevice(device)` (lines 253-263).
CallResume(c) ==
    /\ calls[c].pc = "ready"
    /\ LET r == calls[c]
           h == Head(r.todo)
       IN Continue(c, [r EXCEPT
              !.todo = Tail(r.todo),
              !.refreshed = IF r.cur # 0
                            THEN Append(r.refreshed, WebDevice(h, r.cur))
                            ELSE r.refreshed])
    /\ Quiet
    /\ UNCHANGED << options, deviceList, seen, created, authorisedDevices,
                    granted, cb, made, listeners, slot, subs >>

\* -------------------------------------------- getDevices, requestDevice

\* requestDevice's candidates (line 202)
Candidates(devices, filters) ==
    SelectSeq(devices, LAMBDA d : FilterDevice(d.raw, filters))

\* The device requestDevice selects without a devicesFound callback
\* (line 210)
DefaultChoice(devices) == devices[1]

\* The error requestDevice throws when no device is selected (lines 205,
\* 213, 227)
NoDeviceSelected == "NotFoundError"

\* The call record c completes with this outcome; the record is free again.
Return(c, status, value, pick) ==
    /\ ret' = [op |-> calls[c].op, status |-> status, value |-> value,
               call |-> calls[c], authBefore |-> authorisedDevices,
               pick |-> pick]
    /\ calls' = [calls EXCEPT ![c] = NoCall]
    /\ events' = {}

\* requestDevice's success (lines 216-225): the snapshot is recorded and the
\* device returned.
Grant(c, d, pick) ==
    /\ authorisedDevices' = Append(authorisedDevices, Snapshot(d.raw))
    /\ granted' = granted \cup {d.raw}
    /\ Return(c, "ok", << d >>, pick)

\* A failure that also forgets the recorded snapshots: the variant C13 must
\* reject.
Fail_Forgetting(c, err, pick) ==
    /\ Return(c, err, << >>, pick)
    /\ authorisedDevices' = << >>
    /\ UNCHANGED granted

\* requestDevice's failure with the error named err.
Fail(c, err, pick) ==
    /\ Return(c, err, << >>, pick)
    /\ UNCHANGED << authorisedDevices, granted >>

\* getDevices' result (line 241)
Authorised(devices) ==
    SelectSeq(devices, LAMBDA d : IsAuthorisedDevice(d.raw))

\* getDevices resumes after `await this.loadDevices(preFilters)` (line 241).
GetDevicesReturn(c) ==
    /\ calls[c].pc = "loaded"
    /\ calls[c].op = "getDevices"
    /\ Return(c, "ok", Authorised(calls[c].refreshed), 0)
    /\ UNCHANGED << options, deviceList, seen, knownDevices, created,
                    authorisedDevices, granted, cb, made, listeners, slot, subs >>

\* requestDevice resumes after `await this.loadDevices(options.filters)`
\* (lines 202-225): it fails without candidates, calls devicesFound when
\* there is one, and otherwise grants the default choice.
RequestDeviceResume(c) ==
    /\ calls[c].pc = "loaded"
    /\ calls[c].op = "requestDevice"
    /\ LET devices == Candidates(calls[c].refreshed, calls[c].filters) IN
        IF Len(devices) = 0 THEN Fail(c, NoDeviceSelected, 0)
        ELSE IF options.devicesFound
        THEN /\ calls' = [calls EXCEPT ![c].pc = "selecting",
                                       ![c].refreshed = devices]
             /\ Quiet
             /\ UNCHANGED << authorisedDevices, granted >>
        ELSE Grant(c, DefaultChoice(devices), 0)
    /\ UNCHANGED << options, deviceList, seen, knownDevices, created, cb, made,
                    listeners, slot, subs >>

\* devicesFound settles (lines 210-228): it resolves with one of the
\* candidates (pick is its index), resolves with no device (pick = 0) or
\* fails (pick = -1).
DevicesFoundSettles(c, pick) ==
    /\ calls[c].pc = "selecting"
    /\ pick \in (-1)..Len(calls[c].refreshed)
    /\ IF pick > 0 THEN Grant(c, calls[c].refreshed[pick], pick)
       ELSE Fail(c, NoDeviceSelected, pick)
    /\ UNCHANGED << options, deviceList, seen, knownDevices, created, cb, made,
                    listeners, slot, subs >>

\* ------------------------------------------------------- specifications

\* The facade's calls, made one after the other, against a backend that
\* attaches and detaches devices at any moment; no listener is registered and
\* no device is plugged in again.
Next ==
    \/ \E h \in RawDevices : Attach(h)
    \/ \E h \in RawDevices : Detach(h)
    \/ \E c \in CallIds : NoCallInFlight /\ GetDevices(c)
    \/ \E c \in CallIds : \E input \in RequestInputs :
          NoCallInFlight /\ RequestDevice(c, input)
    \/ \E c \in CallIds : CallCreated(c)
    \/ \E c \in CallIds : CallResume(c)
    \/ \E c \in CallIds : GetDevicesReturn(c)
    \/ \E c \in CallIds : RequestDeviceResume(c)
    \/ \E c \in CallIds : \E pick \in (-1)..Cardinality(RawDevices) :
          DevicesFoundSettles(c, pick)

Spec == Init /\ [][Next]_vars

\* The event bridge: the handler slots subscribe to the raw events, the
\* attach and detach callbacks run, overlapping the calls. The instance is
\* constructed without devicesFound and without allowAllDevices;
\* allowedDevices, when given, names vendor 1. Either r1 or r3 has come and
\* gone before the instance was constructed: r2 and the other remain to be
\* attached, and r2 is not plugged in again.
EventOptions ==
    {o \in OptionChoices : /\ ~o.devicesFound
                           /\ ~o.allowAllDevices
                           /\ o.allowedDevices # Some(<< >>)}

EventInputs == { [kind |-> "ok", filters |-> << >>] }

BridgedCall == NoCallInFlight /\ made < MaxBridgedCalls

InitEvents ==
    /\ options \in EventOptions
    /\ deviceList = << >>
    /\ seen \in {{"r1", "r4"}, {"r3", "r4"}}
    /\ knownDevices = [h \in RawDevices |-> 0]
    /\ created = [h \in RawDevices |-> 0]
    /\ authorisedDevices = << >>
    /\ granted = {}
    /\ listeners = [ch \in Channels |-> << >>]
    /\ slot = [ch \in Channels |-> Undefined]
    /\ subs = [ch \in Channels |-> 0]
    /\ cb = [h \in RawDevices |-> NoCallback]
    /\ calls = [c \in CallIds |-> NoCall]
    /\ made = 0
    /\ events = {}
    /\ ret = NoRet

NextEvents ==
    \/ \E h \in RawDevices : Attach(h)
    \/ \E h \in RawDevices : Detach(h)
    \/ \E h \in RawDevices : ConnectCreated(h)
    \/ \E h \in RawDevices : ConnectResume(h)
    \/ \E ch \in Channels : \E fn \in {Undefined, Some("h1")} : SetHandler(ch, fn)
    \/ \E c \in CallIds : BridgedCall /\ GetDevices(c)
    \/ \E c \in CallIds : \E input \in EventInputs :
          BridgedCall /\ RequestDevice(c, input)
    \/ \E c \in CallIds : CallCreated(c)
    \/ \E c \in CallIds : CallResume(c)
    \/ \E c \in CallIds : GetDevicesReturn(c)
    \/ \E c \in CallIds : RequestDeviceResume(c)

SpecEvents == InitEvents /\ [][NextEvents]_vars

\* Re-plugging: r2 is attached, detached and plugged in again as the new
\* handle r4, while calls are made one after the other, the onconnect slot
\* changes and the connect callbacks run. Only a snapshot authorises a device.
InitReplug ==
    /\ options = [allowAllDevices |-> FALSE, allowedDevices |-> Undefined,
                  devicesFound |-> FALSE]
    /\ deviceList = << >>
    /\ seen = {"r1", "r3"}
    /\ knownDevices = [h \in RawDevices |-> 0]
    /\ created = [h \in RawDevices |-> 0]
    /\ authorisedDevices = << >>
    /\ granted = {}
    /\ listeners = [ch \in Channels |-> << >>]
    /\ slot = [ch \in Channels |-> Undefined]
    /\ subs = [ch \in Channels |-> 0]
    /\ cb = [h \in RawDevices |-> NoCallback]
    /\ calls = [c \in CallIds |-> NoCall]
    /\ made = 0
    /\ events = {}
    /\ ret = NoRet

NextReplug ==
    \/ \E h \in RawDevices : Attach(h)
    \/ \E h \in RawDevices : Detach(h)
    \/ \E h \in RawDevices : ConnectCreated(h)
    \/ \E h \in RawDevices : ConnectResume(h)
    \/ \E fn \in {Undefined, Some("h1")} : SetHandler("connect", fn)
    \/ \E c \in CallIds : NoCallInFlight /\ GetDevices(c)
    \/ \E c \in CallIds : \E input \in EventInputs :
          NoCallInFlight /\ RequestDevice(c, input)
    \/ \E c \in CallIds : CallCreated(c)
    \/ \E c \in CallIds : CallResume(c)
    \/ \E c \in CallIds : GetDevicesReturn(c)
    \/ \E c \in CallIds : RequestDeviceResume(c)

SpecReplug == InitReplug /\ [][NextReplug]_vars

\* quickFilter and filterDevice alone, applied to the descriptors of one or
\* two devices and an optional filter list.

\* An interface's active alternate setting.
Alternate(c, sc, p) ==
    [interfaceClass |-> c, interfaceSubclass |-> sc, interfaceProtocol |-> p]

\* The devices the two functions are applied to: configured or not, with the
\* class declared by the device or by its interfaces, with and without a
\* serial number.
ProbeDevices ==
    { d \in [vendorId : {1, 2}, productId : {1}, deviceClass : {0, 3},
             deviceSubclass : {0, 1}, deviceProtocol : {0},
             serialNumber : {Undefined, Some("A"), Some("B")},
             configured : BOOLEAN,
             interfaces : { << >>, << Alternate(3, 0, 0) >>,
                            << Alternate(3, 1, 0), Alternate(7, 0, 0) >> }] :
        d.configured \/ d.interfaces = << >> }

\* The filters: every field absent or given, 0 being a code like any other.
ProbeFilters ==
    { [NoFilter EXCEPT !.vendorId = v, !.classCode = c, !.subclassCode = sc,
                       !.serialNumber = sn] :
        v \in {Undefined, Some(0), Some(1)},
        c \in {Undefined, Some(0), Some(3)},
        sc \in {Undefined, Some(0), Some(1)},
        sn \in {Undefined, Some("A")} }

\* The optional filter lists: absent, empty, one filter, and some lists of
\* two filters.
ProbeFilterLists ==
    { Undefined, Some(<< >>) }
    \cup { Some(<< f >>) : f \in ProbeFilters }
    \cup { Some(<< [NoFilter EXCEPT !.vendorId = Some(1)], f >>) :
              f \in { g \in ProbeFilters : ~IsDef(g.vendorId)
                                            /\ ~IsDef(g.serialNumber) } }

\* The device lists: one device, and some lists of two devices.
ProbeDeviceLists ==
    { << d >> : d \in ProbeDevices }
    \cup { << d, e >> : d \in { x \in ProbeDevices :
                                   x.interfaces = << >> /\ ~x.configured },
                        e \in { x \in ProbeDevices :
                                   x.interfaces # << >>
                                   /\ x.serialNumber = Some("B")
                                   /\ x.deviceSubclass = 1 } }

InitFilter ==
    /\ options = [allowAllDevices |-> FALSE, allowedDevices |-> Undefined,
                  devicesFound |-> FALSE]
    /\ deviceList = << >>
    /\ seen = RawDevices
    /\ knownDevices = [h \in RawDevices |-> 0]
    /\ created = [h \in RawDevices |-> 0]
    /\ authorisedDevices = << >>
    /\ granted = {}
    /\ listeners = [ch \in Channels |-> << >>]
    /\ slot = [ch \in Channels |-> Undefined]
    /\ subs = [ch \in Channels |-> 0]
    /\ cb = [h \in RawDevices |-> NoCallback]
    /\ calls = [c \in CallIds |-> NoCall]
    /\ made = 0
    /\ events = {}
    /\ ret \in { [op |-> "none", devices |-> ds, filters |-> fs, value |-> << >>] :
                    ds \in ProbeDeviceLists, fs \in ProbeFilterLists }

\* this.quickFilter(devices, preFilters) (lines 286-303)
CallQuickFilter ==
    /\ ret.op = "none"
    /\ ret' = [ret EXCEPT
                 !.op = "quickFilter",
                 !.value = SelectSeq(ret.devices,
                              LAMBDA d : QuickKeeps(d, ret.filters))]
    /\ UNCHANGED << options, deviceList, seen, knownDevices, created,
                    authorisedDevices, granted, listeners, slot, subs, cb,
                    calls, made, events >>

\* devices.filter(device => this.filterDevice(device, filters)) (lines 202,
\* 306-358)
CallFilterDevice ==
    /\ ret.op = "none"
    /\ ret' = [ret EXCEPT
                 !.op = "filterDevice",
                 !.value = SelectSeq(ret.devices,
                              LAMBDA d : FilterDescriptors(d, ret.filters))]
    /\ UNCHANGED << options, deviceList, seen, knownDevices, created,
                    authorisedDevices, granted, listeners, slot, subs, cb,
                    calls, made, events >>

NextFilter ==
    \/ CallQuickFilter
    \/ CallFilterDevice

SpecFilter == InitFilter /\ [][NextFilter]_vars

\* The listener registry alone: addEventListener, removeEventListener and
\* the two handler slots.
NextListeners ==
    \/ \E ch \in Channels : \E fn \in Handlers : AddEventListener(ch, fn)
    \/ \E ch \in Channels : \E fn \in Handlers : RemoveEventListener(ch, fn)
    \/ \E ch \in Channels : \E fn \in {Undefined} \cup {Some(f) : f \in Handlers} :
          SetHandler(ch, fn)

\* The registry is empty after construction; the device side is either
\* untouched or holds r1 attached, adapted and granted by a requestDevice call
\* made before any listener was registered.
InitListeners ==
    /\ options \in OptionChoices
    /\ options.allowAllDevices /\ options.allowedDevices = Undefined
    /\ deviceList \in {<< >>, << "r1" >>}
    /\ seen = {"r4"} \cup Range(deviceList)
    /\ knownDevices = [h \in RawDevices |->
                          IF h \in Range(deviceList) THEN 1 ELSE 0]
    /\ created = knownDevices
    /\ authorisedDevices = [i \in 1..Len(deviceList) |-> Snapshot(deviceList[i])]
    /\ granted = Range(deviceList)
    /\ listeners = [ch \in Channels |-> << >>]
    /\ slot = [ch \in Channels |-> Undefined]
    /\ subs = [ch \in Channels |-> 0]
    /\ cb = [h \in RawDevices |-> NoCallback]
    /\ calls = [c \in CallIds |-> NoCall]
    /\ made = 0
    /\ events = {}
    /\ ret = NoRet

SpecListeners == InitListeners /\ [][NextListeners]_vars

\* Paired notifications: both handler slots were assigned before any device
\* was attached and stay assigned, every device is allowed, r1 and r2 are
\* attached and detached while calls are made, with and without filters.
PairingInputs ==
    EventInputs
    \cup { [kind |-> "ok",
            filters |-> << [NoFilter EXCEPT !.vendorId = Some(2)] >>] }

InitPairing ==
    /\ options = [allowAllDevices |-> TRUE, allowedDevices |-> Undefined,
                  devicesFound |-> FALSE]
    /\ deviceList = << >>
    /\ seen = {"r3", "r4"}
    /\ knownDevices = [h \in RawDevices |-> 0]
    /\ created = [h \in RawDevices |-> 0]
    /\ authorisedDevices = << >>
    /\ granted = {}
    /\ slot = [ch \in Channels |-> Some("h1")]
    /\ listeners = [ch \in Channels |-> << [fn |-> "h1", via |-> "slot"] >>]
    /\ subs = [ch \in Channels |-> 1]
    /\ cb = [h \in RawDevices |-> NoCallback]
    /\ calls = [c \in CallIds |-> NoCall]
    /\ made = 0
    /\ events = {}
    /\ ret = NoRet

NextPairing ==
    \/ \E h \in RawDevices : Attach(h)
    \/ \E h \in RawDevices : Detach(h)
    \/ \E h \in RawDevices : ConnectCreated(h)
    \/ \E h \in RawDevices : ConnectResume(h)
    \/ \E c \in CallIds : BridgedCall /\ GetDevices(c)
    \/ \E c \in CallIds : \E input \in PairingInputs :
          BridgedCall /\ RequestDevice(c, input)
    \/ \E c \in CallIds : CallCreated(c)
    \/ \E c \in CallIds : CallResume(c)
    \/ \E c \in CallIds : GetDevicesReturn(c)
    \/ \E c \in CallIds : RequestDeviceResume(c)

SpecPairing == InitPairing /\ [][NextPairing]_vars

\* --------------------------------------------------------------- claims

\* The raw handles of a sequence of adapted devices, in order.
Raws(devices) == [i \in 1..Len(devices) |-> devices[i].raw]

\* The handles of an enumeration that can be adapted and pass filterDevice
\* for the filters, in enumeration order.
Eligible(enum, filters) ==
    SelectSeq(enum, LAMBDA h : CreateSucceeds(h) /\ FilterDevice(h, filters))

\* Malformed options of a requestDevice call, given the filters the call
\* record holds (none when the argument carried no filter sequence): a filter
\* specifies protocolCode without subclassCode or subclassCode without
\* classCode, 0 being a code like any other.
MalformedOptions(filters) ==
    \/ ~IsDef(filters)
    \/ \E i \in 1..Len(Val(filters)) :
          LET filter == Val(filters)[i] IN
          \/ IsDef(filter.protocolCode) /\ ~IsDef(filter.subclassCode)
          \/ IsDef(filter.subclassCode) /\ ~IsDef(filter.classCode)

\* C1: a device requestDevice has returned is in the result of every later
\* getDevices call that runs while the device's raw handle is enumerated,
\* whatever the static configuration.
C1_GrantedDeviceListed ==
    ret.op = "getDevices" =>
        \A h \in ret.call.granted :
            (h \in Range(ret.call.enum) /\ h \in Range(deviceList))
                => h \in Range(Raws(ret.value))

\* C2: every device getDevices returns is authorised when the call returns
\* (allowAllDevices, or some allowedDevices filter matches it, or a snapshot
\* equals it on the six fields); with allowAllDevices false, no
\* allowedDevices filter and no grant so far the result is empty.
C2_ResultAuthorised ==
    ret.op = "getDevices" =>
        /\ \A i \in 1..Len(ret.value) :
              LET h == ret.value[i].raw IN
              \/ options.allowAllDevices
              \/ /\ IsDef(options.allowedDevices)
                 /\ \E j \in 1..Len(Val(options.allowedDevices)) :
                        FilterMatch(h, Val(options.allowedDevices)[j])
              \/ \E k \in 1..Len(authorisedDevices) :
                    authorisedDevices[k] = Snapshot(h)
        /\ ( /\ ~options.allowAllDevices
             /\ (~IsDef(options.allowedDevices)
                    \/ Len(Val(options.allowedDevices)) = 0)
             /\ authorisedDevices = << >> )
              => ret.value = << >>

\* C3: with allowAllDevices set, getDevices returns exactly the adapted
\* devices of the enumerated handles whose adaptation succeeds, in
\* enumeration order, whatever allowedDevices and authorisedDevices hold.
C3_AllowAllReturnsEveryAdapted ==
    (options.allowAllDevices /\ ret.op = "getDevices") =>
        /\ ret.status = "ok"
        /\ Raws(ret.value) = SelectSeq(ret.call.enum, LAMBDA h : CreateSucceeds(h))
        /\ \A i \in 1..Len(ret.value) :
              ret.value[i].id \in 1..created[ret.value[i].raw]

\* C3's case: allowAllDevices with an allowedDevices list that names vendor 1
\* only; the enumeration holds r2 (vendor 2), which is returned, and r3,
\* whose adaptation fails.
C3_Witness ==
    /\ options.allowAllDevices
    /\ options.allowedDevices = Some(<< [NoFilter EXCEPT !.vendorId = Some(1)] >>)
    /\ ret.op = "getDevices"
    /\ "r3" \in Range(ret.call.enum)
    /\ "r2" \in Range(Raws(ret.value))

\* C4: without a devicesFound callback, requestDevice with well-formed
\* options returns the first enumerated handle that adapts and passes
\* filterDevice, and appends exactly that device's snapshot to
\* authorisedDevices.
C4_FirstEligibleGranted ==
    (/\ ret.op = "requestDevice"
     /\ ~MalformedOptions(ret.call.filters)
     /\ ~options.devicesFound) =>
        LET e == Eligible(ret.call.enum, ret.call.filters) IN
        e # << >> =>
            /\ ret.status = "ok"
            /\ Raws(ret.value) = << e[1] >>
            /\ ret.value[1].id \in 1..created[e[1]]
            /\ authorisedDevices = Append(ret.authBefore, Snapshot(e[1]))

\* C4 restricted to the options requestDevice's validation accepts.
C4_OnAcceptedOptions ==
    (ret.op = "requestDevice" /\ ret.status # "TypeError"
        /\ ~options.devicesFound) =>
        LET e == Eligible(ret.call.enum, ret.call.filters) IN
        e # << >> =>
            /\ ret.status = "ok"
            /\ Raws(ret.value) = << e[1] >>
            /\ ret.value[1].id \in 1..created[e[1]]
            /\ authorisedDevices = Append(ret.authBefore, Snapshot(e[1]))

\* C5: requestDevice with well-formed options fails with NotFoundError and
\* with no other error when no adapted device passes filterDevice, when
\* devicesFound resolves with no device and when devicesFound fails; a failed
\* call leaves authorisedDevices unchanged.
C5_NotFoundErrorOnly ==
    (ret.op = "requestDevice" /\ ~MalformedOptions(ret.call.filters)) =>
        /\ Eligible(ret.call.enum, ret.call.filters) = << >>
              => ret.status = "NotFoundError"
        /\ (ret.call.pc = "selecting" /\ ret.pick <= 0)
              => ret.status = "NotFoundError"
        /\ ret.status \in {"ok", "NotFoundError"}
        /\ ret.status # "ok" => authorisedDevices = ret.authBefore

\* C5 restricted to the options requestDevice's validation accepts.
C5_OnAcceptedOptions ==
    (ret.op = "requestDevice" /\ ret.status # "TypeError") =>
        /\ Eligible(ret.call.enum, ret.call.filters) = << >>
              => ret.status = "NotFoundError"
        /\ (ret.call.pc = "selecting" /\ ret.pick <= 0)
              => ret.status = "NotFoundError"
        /\ ret.status \in {"ok", "NotFoundError"}
        /\ ret.status # "ok" => authorisedDevices = ret.authBefore

\* C6: requestDevice with malformed options (no options object, no filter
\* sequence, a filter that specifies protocolCode without subclassCode or
\* subclassCode without classCode, 0 being a code like any other) fails with
\* TypeError before it enumerates or adapts anything.
C6_MalformedRejectedFirst ==
    /\ \A c \in CallIds :
          calls[c].op = "requestDevice" => ~MalformedOptions(calls[c].filters)
    /\ (ret.op = "requestDevice" /\ MalformedOptions(ret.call.filters)) =>
          /\ ret.status = "TypeError"
          /\ ret.call.pc = "idle"
          /\ authorisedDevices = ret.authBefore

\* C7: a channel's raw event has one subscription while the channel has a
\* listener and none while it has no listener, after any sequence of
\* addEventListener, removeEventListener and handler-slot assignments.
C7_SubscribedIffListeners ==
    \A ch \in Channels :
        subs[ch] = IF Len(listeners[ch]) > 0 THEN 1 ELSE 0

\* C7's case: the same function is registered twice on connect, through
\* addEventListener and through the handler slot, and the raw attach event is
\* subscribed once; disconnect has no listener and no subscription.
C7_Witness ==
    /\ Len(listeners["connect"]) = 2
    /\ listeners["connect"][1].fn = listeners["connect"][2].fn
    /\ listeners["connect"][1].via # listeners["connect"][2].via
    /\ subs["connect"] = 1
    /\ listeners["disconnect"] = << >>
    /\ subs["disconnect"] = 0

\* C8: a raw attach starts the connect callback exactly when the attach event
\* is subscribed; when the callback's adaptation has completed, a connect
\* notification carrying the adapted device is emitted if and only if the
\* adaptation succeeded and the device is authorised at that moment, and
\* nothing else emits a connect notification.
C8_ConnectIffAdaptedAndAuthorised ==
    [][ /\ \A h \in RawDevices :
            /\ (h \notin seen /\ h \in seen') =>
                  /\ events' = {}
                  /\ (cb'[h].pc # "idle") <=> (subs["connect"] > 0)
            /\ (cb[h].pc = "ready" /\ cb'[h].pc = "idle") =>
                  /\ (cb[h].cur # 0) <=> CreateSucceeds(h)
                  /\ events' = IF CreateSucceeds(h) /\ IsAuthorisedDevice(h)
                               THEN {[type |-> "connect", raw |-> h,
                                      id |-> cb[h].cur]}
                               ELSE {}
        /\ \A e \in events' :
              e.type = "connect" =>
                  /\ cb[e.raw].pc = "ready" /\ cb'[e.raw].pc = "idle"
                  /\ e.id \in 1..created[e.raw]
                  /\ IsAuthorisedDevice(e.raw)
      ]_vars

\* C8's case: a connect notification for a device no allowedDevices filter
\* matches, authorised by the snapshot a requestDevice call recorded while
\* the callback was suspended.
C8_Witness ==
    \E e \in events :
        /\ e.type = "connect"
        /\ ~(IsDef(options.allowedDevices)
                /\ FilterDevice(e.raw, options.allowedDevices))
        /\ e.raw \in granted

\* C9: on a raw detach with the detach event subscribed, a disconnect
\* notification is emitted if and only if the handle has an entry in
\* knownDevices and that device is authorised; it carries the cached adapted
\* device, no adapter is created, and a handle that was never adapted
\* produces no notification.
C9_DisconnectIffKnownAndAuthorised ==
    [][ /\ \A h \in RawDevices :
            (h \in Range(deviceList) /\ h \notin Range(deviceList')) =>
                /\ events' = IF /\ subs["disconnect"] > 0
                                /\ knownDevices[h] # 0
                                /\ IsAuthorisedDevice(h)
                             THEN {[type |-> "disconnect", raw |-> h,
                                    id |-> knownDevices[h]]}
                             ELSE {}
                /\ created' = created
                /\ created[h] = 0 => events' = {}
        /\ \A e \in events' :
              e.type = "disconnect" =>
                  /\ e.raw \in Range(deviceList)
                  /\ e.raw \notin Range(deviceList')
                  /\ e.id \in 1..created[e.raw]
      ]_vars

\* C9's case: a detach has emitted a disconnect notification that carries
\* the cached adapted device of the detached handle.
C9_Witness ==
    \E e \in events :
        /\ e.type = "disconnect"
        /\ e.raw \notin Range(deviceList)
        /\ e.id = knownDevices[e.raw]
        /\ e.id >= 1

\* C10: a handle whose adaptation fails is never in knownDevices nor in a
\* result; getDevices never fails and returns every other enumerated handle
\* that passes its pre-filters and is authorised; requestDevice fails only
\* with NotFoundError, and without devicesFound exactly when no adaptable
\* handle passes filterDevice.
C10_AdaptationFailuresAbsorbed ==
    /\ \A h \in RawDevices : ~CreateSucceeds(h) => knownDevices[h] = 0
    /\ ret.op = "getDevices" =>
          /\ ret.status = "ok"
          /\ \A h \in Range(ret.call.enum) :
                IF CreateSucceeds(h)
                THEN (/\ h \in Range(QuickFilter(ret.call.enum, ret.call.filters))
                      /\ IsAuthorisedDevice(h))
                        => h \in Range(Raws(ret.value))
                ELSE h \notin Range(Raws(ret.value))
    /\ (ret.op = "requestDevice" /\ ret.status # "TypeError") =>
          /\ ret.status \in {"ok", "NotFoundError"}
          /\ ret.status = "ok" => CreateSucceeds(ret.value[1].raw)
          /\ ~options.devicesFound =>
                (ret.status = "ok"
                    <=> Eligible(ret.call.enum, ret.call.filters) # << >>)

\* C10's case: getDevices returns a device that was enumerated after r3,
\* whose adaptation was attempted and failed.
C10_Witness ==
    /\ ret.op = "getDevices"
    /\ Len(ret.call.enum) >= 2
    /\ ret.call.enum[1] = "r3"
    /\ "r3" \in Range(QuickFilter(ret.call.enum, ret.call.filters))
    /\ Len(ret.value) >= 1

\* A filter matches a device when every field it specifies equals the
\* device's: vendorId, productId and serialNumber, and the class, subclass
\* and protocol either of the device itself or of one interface's active
\* alternate setting.
SpecifiedFieldsMatch(d, filter) ==
    /\ IsDef(filter.vendorId) => filter.vendorId = Some(d.vendorId)
    /\ IsDef(filter.productId) => filter.productId = Some(d.productId)
    /\ IsDef(filter.serialNumber) => filter.serialNumber = d.serialNumber
    /\ \/ /\ IsDef(filter.classCode) => filter.classCode = Some(d.deviceClass)
          /\ IsDef(filter.subclassCode)
                => filter.subclassCode = Some(d.deviceSubclass)
          /\ IsDef(filter.protocolCode)
                => filter.protocolCode = Some(d.deviceProtocol)
       \/ \E i \in 1..Len(d.interfaces) :
             LET iface == d.interfaces[i] IN
             /\ IsDef(filter.classCode)
                   => filter.classCode = Some(iface.interfaceClass)
             /\ IsDef(filter.subclassCode)
                   => filter.subclassCode = Some(iface.interfaceSubclass)
             /\ IsDef(filter.protocolCode)
                   => filter.protocolCode = Some(iface.interfaceProtocol)

\* C11: filterDevice accepts a device exactly when some filter of the list
\* matches it on every field the filter specifies (0 being a code like any
\* other, the serial number also when the class is matched through an
\* interface); with no filters it accepts every device.
C11_FilterDeviceMatchesSpecifiedFields ==
    ret.op = "filterDevice" =>
        ret.value = SelectSeq(ret.devices, LAMBDA d :
            \/ ~IsDef(ret.filters)
            \/ Len(Val(ret.filters)) = 0
            \/ \E i \in 1..Len(Val(ret.filters)) :
                  SpecifiedFieldsMatch(d, Val(ret.filters)[i]))

\* One interface of the device matches every class, subclass and protocol
\* field the filter specifies.
OneInterfaceMatches(d, filter) ==
    \E i \in 1..Len(d.interfaces) :
        LET iface == d.interfaces[i] IN
        /\ IsDef(filter.classCode)
              => filter.classCode = Some(iface.interfaceClass)
        /\ IsDef(filter.subclassCode)
              => filter.subclassCode = Some(iface.interfaceSubclass)
        /\ IsDef(filter.protocolCode)
              => filter.protocolCode = Some(iface.interfaceProtocol)

\* The device's own class, subclass and protocol match every such field the
\* filter specifies.
DeviceLevelMatches(d, filter) ==
    /\ IsDef(filter.classCode) => filter.classCode = Some(d.deviceClass)
    /\ IsDef(filter.subclassCode) => filter.subclassCode = Some(d.deviceSubclass)
    /\ IsDef(filter.protocolCode) => filter.protocolCode = Some(d.deviceProtocol)

\* A filter that constrains the class only, with the class given whenever
\* the subclass is.
ClassFilter(filter) ==
    /\ IsDef(filter.classCode)
    /\ ~IsDef(filter.vendorId) /\ ~IsDef(filter.productId)
    /\ ~IsDef(filter.serialNumber)
    /\ IsDef(filter.protocolCode) => IsDef(filter.subclassCode)

\* C12: a class filter accepts a device one of whose interfaces matches every
\* class, subclass and protocol field the filter specifies, whatever the
\* device-level fields (so class 0 with an interface of class c matches
\* {classCode: c}), and rejects a device whose own fields do not match and
\* whose interfaces match the specified fields only piecewise.
C12_OneInterfaceMatchesAllFields ==
    (/\ ret.op = "filterDevice"
     /\ IsDef(ret.filters)
     /\ Len(Val(ret.filters)) = 1
     /\ ClassFilter(Val(ret.filters)[1])) =>
        LET filter == Val(ret.filters)[1]
            accepted == Range(ret.value)
        IN \A d \in Range(ret.devices) :
            /\ OneInterfaceMatches(d, filter) => d \in accepted
            /\ (~OneInterfaceMatches(d, filter) /\ ~DeviceLevelMatches(d, filter))
                  => d \notin accepted

\* The handle is authorised by a recorded snapshot.
SnapshotAuthorises(authorised, h) ==
    \E k \in 1..Len(authorised) : SnapshotMatch(authorised[k], h)

\* C13: no step removes or alters a recorded snapshot: authorisedDevices only
\* grows at its end, and a device a snapshot authorises stays authorised,
\* whether attached, detached or plugged in again with the same six fields.
C13_AuthorisedDevicesOnlyGrow ==
    [][ /\ Len(authorisedDevices) <= Len(authorisedDevices')
        /\ SubSeq(authorisedDevices', 1, Len(authorisedDevices))
              = authorisedDevices
        /\ \A h \in RawDevices :
              SnapshotAuthorises(authorisedDevices, h)
                  => SnapshotAuthorises(authorisedDevices', h)
      ]_vars

\* C13's case: r2 was granted and detached, a later requestDevice call has
\* failed, and the connect notification of r4, the same device plugged in
\* again and never granted itself, is emitted.
C13_Witness ==
    /\ "r2" \in granted
    /\ "r4" \notin granted
    /\ "r2" \notin Range(deviceList)
    /\ made = MaxCalls
    /\ Len(authorisedDevices) = 1
    /\ \E e \in events : e.type = "connect" /\ e.raw = "r4"

\* C14: knownDevices holds no handle the backend no longer enumerates: once a
\* raw detach has been handled the handle's entry is gone, and when a
\* loadDevices pass completes the keys of knownDevices are exactly the
\* handles of the pass that survived quickFilter and were adapted.
C14_DetachDropsCacheEntry ==
    [][ /\ \A h \in RawDevices :
            (/\ h \in Range(deviceList)
             /\ h \notin Range(deviceList')
             /\ subs["disconnect"] > 0)
                => knownDevices'[h] = 0
        /\ \A c \in CallIds :
            (calls[c].pc # "loaded" /\ calls'[c].pc = "loaded")
                => {h \in RawDevices : knownDevices'[h] # 0}
                     = {h \in Range(QuickFilter(calls'[c].enum,
                                                calls'[c].filters)) :
                            CreateSucceeds(h)}
      ]_vars

\* C15: while a handle is enumerated at most one adapter is ever created for
\* it, and every result and every notification that refers to the handle
\* carries that adapter, whatever the interleaving of attach callbacks with
\* calls and whatever pre-filters successive calls use.
C15_OneAdapterPerDevice ==
    /\ \A h \in Range(deviceList) : created[h] <= 1
    /\ \A i \in 1..Len(ret.value) :
          ret.op \in {"getDevices", "requestDevice"} => ret.value[i].id = 1
    /\ \A e \in events : e.id = 1

\* C16: every adapted device in a result of getDevices or requestDevice
\* corresponds, when the call returns, to a raw device the backend currently
\* enumerates, also when a device was detached while the call was suspended.
C16_ResultsAreLive ==
    (ret.op \in {"getDevices", "requestDevice"} /\ ret.status = "ok")
        => \A i \in 1..Len(ret.value) : ret.value[i].raw \in Range(deviceList)

\* How often the function g is registered in a listener list, and how many of
\* those registrations were made through addEventListener.
Registered(ls, g) == Cardinality({i \in 1..Len(ls) : ls[i].fn = g})

AddRegistered(ls, g) ==
    Cardinality({i \in 1..Len(ls) : ls[i].fn = g /\ ls[i].via = "add"})

\* C17: assigning onconnect or ondisconnect replaces only the handler that
\* was installed through that slot: the slot then holds the assigned value,
\* the assignment registers nothing but the assigned handler, and every
\* registration made through addEventListener is still there afterwards,
\* also when the same function was used for both.
C17_SlotReplacesOnlySlotHandler ==
    [][ \A ch \in Channels :
        \A fn \in {Undefined} \cup {Some(f) : f \in Handlers} :
            SetHandler(ch, fn) =>
                /\ slot'[ch] = fn
                /\ \A g \in Handlers :
                     LET own == IF fn = Some(g) THEN 1 ELSE 0 IN
                     /\ Registered(listeners'[ch], g)
                            <= Registered(listeners[ch], g) + own
                     /\ Registered(listeners'[ch], g)
                            >= AddRegistered(listeners[ch], g) + own
      ]_vars

\* C18: the two channels are independent: a step that changes the listeners
\* or the handler slot of one channel leaves the other channel's listeners,
\* slot and backend subscription unchanged, and changes neither knownDevices
\* nor authorisedDevices.
C18_ChannelsIndependent ==
    [][ \A ch \in Channels :
            (listeners'[ch] # listeners[ch] \/ slot'[ch] # slot[ch]) =>
                /\ \A o \in Channels \ {ch} :
                      /\ listeners'[o] = listeners[o]
                      /\ slot'[o] = slot[o]
                      /\ subs'[o] = subs[o]
                /\ knownDevices' = knownDevices
                /\ authorisedDevices' = authorisedDevices
      ]_vars

\* One channel went through the slot and addEventListener and is subscribed,
\* the other is still unsubscribed, and the cache and the grants are not empty.
C18_Witness ==
    /\ Len(listeners["connect"]) = 2
    /\ IsDef(slot["connect"])
    /\ subs["connect"] = 1
    /\ listeners["disconnect"] = << >>
    /\ subs["disconnect"] = 0
    /\ knownDevices["r1"] # 0
    /\ authorisedDevices # << >>

\* The devices of a list that filterDevice accepts for the filters.
Accepted(devices, filters) ==
    SelectSeq(devices, LAMBDA d : FilterDescriptors(d, filters))

\* C19: quickFilter never discards a device that filterDevice accepts for the
\* same filters, so filtering its result gives the same candidates as
\* filtering the whole list; with absent or empty filters it returns its
\* input unchanged.
C19_QuickFilterKeepsAccepted ==
    ret.op = "quickFilter" =>
        /\ Accepted(ret.value, ret.filters) = Accepted(ret.devices, ret.filters)
        /\ (~IsDef(ret.filters) \/ Len(Val(ret.filters)) = 0)
               => ret.value = ret.devices

\* quickFilter discarded one of two devices for a filter that names a class,
\* and filterDevice accepts the device it retained.
C19_Witness ==
    /\ ret.op = "quickFilter"
    /\ Len(ret.devices) = 2
    /\ Len(ret.value) = 1
    /\ Accepted(ret.value, ret.filters) = ret.value
    /\ \E i \in 1..Len(Val(ret.filters)) : IsDef(Val(ret.filters)[i].classCode)

\* C20: with a connect and a disconnect listener registered throughout and
\* every device allowed, a device whose connect callback has completed with
\* an adapter (so that its connect notification was emitted) gets a
\* disconnect notification when it is detached, whatever calls ran or are
\* in flight.
C20_ConnectPairedWithDisconnect ==
    [][ \A h \in RawDevices :
            (/\ h \in Range(deviceList)
             /\ h \notin Range(deviceList')
             /\ cb[h].pc = "idle"
             /\ CreateSucceeds(h)
             /\ subs["connect"] > 0
             /\ subs["disconnect"] > 0)
                => \E e \in events' : e.type = "disconnect" /\ e.raw = h
      ]_vars

====
